---- MODULE Spec2Model ----
(***************************************************************************)
(* Model of npmp_embedding/mocap_preprocess.py: the feature extractor      *)
(* (get_mocap_features), the velocity estimator                            *)
(* (compute_velocity_from_kinematics), the sequential and the parallel     *)
(* chunking of a reference trajectory into clips (extract_features), the   *)
(* clip serializer (save_features) and merge_preprocessed_files.           *)
(*                                                                         *)
(* Units.  Lengths are integers in units of 1/120 mm, so that the mean of  *)
(* 2, 4, 6, 8 or 10 foot heights given in whole millimetres is exact.      *)
(* Angles are integers in units of 0.05 rad, so that the 0.1 diagnostic    *)
(* threshold is 2 units.  The time step dt is 1/dt_inv seconds, so that    *)
(* x / dt is x * dt_inv.  Root orientations are unit quaternions with      *)
(* integer components (the group {+-1, +-i, +-j, +-k}); axis-angle         *)
(* vectors are in units of pi.                                             *)
(***************************************************************************)
EXTENDS Integers, Sequences, FiniteSets, TLC

VARIABLES
    stac,        \* the "qpos" dataset of the stac file, as stored on disk
    feet,        \* forward kinematics of the model: foot heights <<L, R>> of each frame
    walker,      \* the kinematic model handle (joints, ranges, tracked bodies)
    cfg,         \* the constructor options of the preprocessor(s)
    mode,        \* which entry point runs: "seq", "par", "feat" or "vel"
    qpos,        \* self.qpos of the sequential preprocessor
    pc,          \* position of the sequential extract_features
    start_step,  \* loop variable of the sequential extract_features
    fs,          \* the file system: file name -> container (a set of clip groups)
    out,         \* standard output: the diagnostic records printed so far
    jobs,        \* the parallel jobs: job index -> [pc, start_step, save_file, qpos]
    mpc,         \* position of merge_preprocessed_files
    files,       \* local variable files of merge_preprocessed_files
    mi,          \* number of files the loop of merge_preprocessed_files has taken
    after_jobs,  \* whether every job had ended when the merge started
    result       \* value returned by the last pure call (feature / velocity runs)

vars == <<stac, feet, walker, cfg, mode, qpos, pc, start_step, fs, out,
          jobs, mpc, files, mi, after_jobs, result>>

----------------------------------------------------------------------------
(* Bounds of the model. *)

MaxSteps == 5        \* longest reference trajectory of the chunking runs
MaxClipLength == 3   \* largest clip_length of the chunking runs
MaxRefStep == 2      \* largest reference step (ref_steps is 1..k, k <= MaxRefStep)
MaxFeatSteps == 6    \* longest segment of the feature runs
MaxVelSteps == 2     \* most velocity rows of the velocity runs
MaxJobs == 2         \* largest number of parallel jobs
MaxClipSteps == 2    \* longest segment of the feature runs that vary the angles

----------------------------------------------------------------------------
(* Small helpers over sequences. *)

RECURSIVE SumSeq(_)
SumSeq(s) == IF s = <<>> THEN 0 ELSE Head(s) + SumSeq(Tail(s))

RECURSIVE FlattenSeq(_)
FlattenSeq(ss) == IF ss = <<>> THEN <<>> ELSE Head(ss) \o FlattenSeq(Tail(ss))

Abs(x) == IF x < 0 THEN -x ELSE x

Min2(a, b) == IF a <= b THEN a ELSE b

Take(s, n) == SubSeq(s, 1, Min2(n, Len(s)))

(* numpy slice a[lo:hi] for 0 <= lo, 0 <= hi: rows lo .. hi-1 (0-based), clamped *)
Slice(a, lo, hi) == SubSeq(a, lo + 1, Min2(hi, Len(a)))

RECURSIVE Insert(_, _)
Insert(x, s) == IF s = <<>> THEN <<x>>
                ELSE IF x <= Head(s) THEN <<x>> \o s
                ELSE <<Head(s)>> \o Insert(x, Tail(s))

(* np.sort: ascending *)
RECURSIVE np_sort(_)
np_sort(s) == IF s = <<>> THEN <<>> ELSE Insert(Head(s), np_sort(Tail(s)))

(* np.clip of one value *)
np_clip(v, lo, hi) == IF v < lo THEN lo ELSE IF v > hi THEN hi ELSE v

----------------------------------------------------------------------------
(* Program constants. *)

ClipTol == 2          \* 0.1, the diagnostic threshold, in angle / velocity units
GeomThickness == 720  \* 0.006 m, the thickness of the geoms, in length units
MeanCount == 10       \* number of lowest foot heights averaged
FreejointDim == 7     \* width of the freejoint part of a pose
SavedDt == 2          \* clip attribute dt = 0.02, in hundredths of a second

----------------------------------------------------------------------------
(* Quaternions: dm_control.utils.transformations as the velocity estimator  *)
(* uses it, on quaternions with integer components.                         *)

quat_conj(q) == <<q[1], -q[2], -q[3], -q[4]>>

quat_mul(a, b) ==
    << a[1]*b[1] - a[2]*b[2] - a[3]*b[3] - a[4]*b[4],
       a[1]*b[2] + a[2]*b[1] + a[3]*b[4] - a[4]*b[3],
       a[1]*b[3] - a[2]*b[4] + a[3]*b[1] + a[4]*b[2],
       a[1]*b[4] + a[2]*b[3] - a[3]*b[2] + a[4]*b[1] >>

(* tr.quat_diff(source, target): the rotation taking source to target *)
quat_diff(source, target) == quat_mul(quat_conj(source), target)

(* np.linalg.norm of a quaternion whose norm is an integer *)
quat_norm(q) ==
    LET ss == q[1]*q[1] + q[2]*q[2] + q[3]*q[3] + q[4]*q[4]
    IN  CHOOSE n \in 0..ss : n * n = ss

(* normed_diff /= np.linalg.norm(normed_diff) *)
quat_normalize(q) == LET n == quat_norm(q) IN [k \in 1..4 |-> q[k] \div n]

(* tr.quat_to_axisangle of a unit quaternion, in units of pi:               *)
(*   angle = 2 arccos(w); zero vector when angle < tol; otherwise           *)
(*   axis = xyz / sin(angle / 2), angle wrapped into [-pi, pi), axis*angle. *)
quat_to_axisangle(q) ==
    LET angle == IF q[1] >= 1 THEN 0 ELSE IF q[1] = 0 THEN 1 ELSE 2
        wrapped == ((angle + 1) % 2) - 1
    IN  IF angle = 0 THEN <<0, 0, 0>>
        ELSE <<q[2] * wrapped, q[3] * wrapped, q[4] * wrapped>>

----------------------------------------------------------------------------
(* Velocity estimator. *)

(* mutant of FiniteDiff: the difference taken backwards *)
FiniteDiffBackwards(a, b, dt_inv) == (a - b) * dt_inv

(* lines 422 and 429: (x[t+1] - x[t]) / dt for one component *)
FiniteDiff(a, b, dt_inv) == (b - a) * dt_inv

(* compute_velocity_from_kinematics(qpos_trajectory, dt), dt = 1 / dt_inv:  *)
(* one row [linear(3), angular(3), joints] per consecutive pair of poses.   *)
compute_velocity_from_kinematics(qpos_trajectory, dt_inv) ==
    LET T == Len(qpos_trajectory)
        W == Len(qpos_trajectory[1])
        qvel_translation(t) ==
            [c \in 1..3 |->
                FiniteDiff(qpos_trajectory[t][c], qpos_trajectory[t + 1][c], dt_inv)]
        qvel_gyro(t) ==
            LET normed_diff == quat_normalize(
                    quat_diff(SubSeq(qpos_trajectory[t], 4, 7),
                              SubSeq(qpos_trajectory[t + 1], 4, 7)))
                aa == quat_to_axisangle(normed_diff)
            IN  [c \in 1..3 |-> aa[c] * dt_inv]
        qvel_joints(t) ==
            [c \in 1..(W - FreejointDim) |->
                FiniteDiff(qpos_trajectory[t][FreejointDim + c],
                           qpos_trajectory[t + 1][FreejointDim + c], dt_inv)]
    IN  [t \in 1..(T - 1) |-> qvel_translation(t) \o qvel_gyro(t) \o qvel_joints(t)]

----------------------------------------------------------------------------
(* Pose applicator and the read-back of the kinematic model.  The model     *)
(* (physics, walker) is an external collaborator: what it reads back for a  *)
(* frame is the pose that was set plus the heights of the two feet, which   *)
(* are an input of the run (feet).                                          *)

(* set_walker with null_xyr = False, offset = 0 and no shift: the physics   *)
(* state is a copy of the pose                                              *)
set_walker(pose) == [k \in 1..Len(pose) |-> pose[k]]

(* list.index: 0-based position of the first occurrence, -1 for ValueError *)
ListIndex(names, n) ==
    IF \E k \in 1..Len(names) : names[k] = n
    THEN (CHOOSE k \in 1..Len(names) :
              names[k] = n /\ \A m \in 1..(k - 1) : names[m] # n) - 1
    ELSE -1

(* the quantities read back for one frame, lines 294-318 *)
ReadFrame(w, pose, fr) ==
    LET phys == set_walker(pose)
        root_pos == SubSeq(phys, 1, 3)
        root_quat == SubSeq(phys, 4, FreejointDim)
        end_effectors == << <<0, 0, fr[1] - root_pos[3]>>, <<0, 0, fr[2] - root_pos[3]>> >>
    IN  [ position |-> root_pos,
          quaternion |-> root_quat,
          joints |-> SubSeq(phys, FreejointDim + 1, Len(phys)),
          center_of_mass |-> root_pos,
          end_effectors |-> end_effectors,
          appendages |-> IF w.has_appendages
                         THEN end_effectors \o << <<0, 0, 0>> >>
                         ELSE end_effectors,
          body_positions |->
              [b \in 1..Len(w.body_names) |->
                  IF w.body_names[b] = "foot_L" THEN <<root_pos[1], root_pos[2], fr[1]>>
                  ELSE IF w.body_names[b] = "foot_R" THEN <<root_pos[1], root_pos[2], fr[2]>>
                  ELSE root_pos],
          body_quaternions |-> [b \in 1..Len(w.body_names) |-> root_quat] ]

----------------------------------------------------------------------------
(* Feature extractor. *)

(* the features of a call that raised *)
NoFeatures ==
    [ position |-> <<>>, quaternion |-> <<>>, joints |-> <<>>,
      center_of_mass |-> <<>>, end_effectors |-> <<>>, appendages |-> <<>>,
      body_positions |-> <<>>, body_quaternions |-> <<>>,
      velocity |-> <<>>, angular_velocity |-> <<>>, joints_velocity |-> <<>> ]

(* lines 247-248: the joint angles of each pose clipped to the joint ranges *)
ClipAngles(w, mocap_qpos) ==
    [i \in 1..Len(mocap_qpos) |->
        [j \in 1..(Len(mocap_qpos[i]) - FreejointDim) |->
            np_clip(mocap_qpos[i][FreejointDim + j],
                    w.joint_ranges[j][1], w.joint_ranges[j][2])]]

(* mutant of ClipDiagnostics: the records are printed whatever verbatim is *)
ClipDiagnosticsAlways(kind, names, orig, clipped, verbatim) ==
    FlattenSeq([i \in 1..Len(orig) |->
        FlattenSeq([j \in 1..Len(orig[i]) |->
            IF orig[i][j] # clipped[i][j]
               /\ Abs(orig[i][j] - clipped[i][j]) >= ClipTol
            THEN << [kind |-> kind, step |-> i - 1, joint |-> names[j],
                     from |-> orig[i][j], to |-> clipped[i][j]] >>
            ELSE <<>>])])

(* lines 249-257 and 349-357: the records printed for the entries of orig   *)
(* that differ from clipped, in row-major order (np.where)                   *)
ClipDiagnostics(kind, names, orig, clipped, verbatim) ==
    IF ~verbatim THEN <<>>
    ELSE FlattenSeq([i \in 1..Len(orig) |->
            FlattenSeq([j \in 1..Len(orig[i]) |->
                IF orig[i][j] # clipped[i][j]
                   /\ Abs(orig[i][j] - clipped[i][j]) >= ClipTol
                THEN << [kind |-> kind, step |-> i - 1, joint |-> names[j],
                         from |-> orig[i][j], to |-> clipped[i][j]] >>
                ELSE <<>>])])

(* line 258: mocap_qpos[:, 7:] = clipped_angles, written into the array     *)
(* the caller passed                                                         *)
WriteAngles(mocap_qpos, clipped_angles) ==
    [i \in 1..Len(mocap_qpos) |->
        SubSeq(mocap_qpos[i], 1, FreejointDim) \o clipped_angles[i]]

(* mutant of ZOffset: the mean of all the foot heights *)
ZOffsetMeanOfAll(feet_height, adjust_z_offset) ==
    IF adjust_z_offset # 0
    THEN (SumSeq(feet_height) \div Len(feet_height)) - GeomThickness
    ELSE 0

(* lines 335-339 *)
ZOffset(feet_height, adjust_z_offset) ==
    IF adjust_z_offset # 0
    THEN LET lowest == Take(np_sort(feet_height), MeanCount)
         IN  (SumSeq(lowest) \div Len(lowest)) - GeomThickness
    ELSE 0

(* x[:, 2] -= z_offset on a sequence of vectors *)
ShiftZ(rows, z_offset) ==
    [i \in 1..Len(rows) |-> [rows[i] EXCEPT ![3] = @ - z_offset]]

(* mutant of PadFinal: the trajectory is differenced without the padding *)
PadNone(mocap_qpos) == mocap_qpos

(* line 280: one copy of the final pose appended *)
PadFinal(mocap_qpos) == mocap_qpos \o <<mocap_qpos[Len(mocap_qpos)]>>

(* get_mocap_features(mocap_qpos, walker, physics, max_qvel, dt,            *)
(* adjust_z_offset, verbatim).  fk holds the foot heights the model reads   *)
(* back for the frames of mocap_qpos.  The value is                          *)
(*   err      "none", or the error raised: "shape" (line 248), "config"     *)
(*            (lines 276-277), "index" (line 280, empty segment);            *)
(*   view     the caller's array after the call;                             *)
(*   printed  the diagnostic records printed;                                *)
(*   z_offset the ground offset applied;                                     *)
(*   working  the local array mocap_qpos at the return (padded, shifted);    *)
(*   features the mapping returned.                                          *)
get_mocap_features(mocap_qpos, fk, w, max_qvel, dt_inv, adjust_z_offset, verbatim) ==
    LET N == Len(mocap_qpos)
        J == Len(w.joint_names)
        shape_error == \E i \in 1..N : Len(mocap_qpos[i]) - FreejointDim # J
        angles == [i \in 1..N |-> SubSeq(mocap_qpos[i], FreejointDim + 1, Len(mocap_qpos[i]))]
        clipped_angles == ClipAngles(w, mocap_qpos)
        angle_printed ==
            ClipDiagnostics("angle", w.joint_names, angles, clipped_angles, verbatim)
        clipped_qpos == WriteAngles(mocap_qpos, clipped_angles)
        left_foot_index == ListIndex(w.body_names, "foot_L")
        right_foot_index == ListIndex(w.body_names, "foot_R")
        config_error == adjust_z_offset # 0
                        /\ (left_foot_index < 0 \/ right_foot_index < 0)
        padded == PadFinal(clipped_qpos)
        frames == [n \in 1..N |-> ReadFrame(w, padded[n], fk[n])]
        feet_height ==
            IF adjust_z_offset # 0
            THEN FlattenSeq([n \in 1..N |->
                    << frames[n].body_positions[left_foot_index + 1][3],
                       frames[n].body_positions[right_foot_index + 1][3] >>])
            ELSE <<>>
        z_offset == ZOffset(feet_height, adjust_z_offset)
        shifted == ShiftZ(padded, z_offset)
        mocap_qvel == compute_velocity_from_kinematics(shifted, dt_inv)
        vels == [t \in 1..Len(mocap_qvel) |-> SubSeq(mocap_qvel[t], 7, Len(mocap_qvel[t]))]
        clipped_vels == [t \in 1..Len(vels) |->
                            [j \in 1..Len(vels[t]) |-> np_clip(vels[t][j], -max_qvel, max_qvel)]]
        vel_printed ==
            ClipDiagnostics("velocity", w.joint_names, vels, clipped_vels, verbatim)
    IN  IF shape_error
        THEN [err |-> "shape", view |-> mocap_qpos, printed |-> <<>>,
              z_offset |-> 0, working |-> <<>>, features |-> NoFeatures]
        ELSE IF config_error
        THEN [err |-> "config", view |-> clipped_qpos, printed |-> angle_printed,
              z_offset |-> 0, working |-> <<>>, features |-> NoFeatures]
        ELSE IF N = 0
        THEN [err |-> "index", view |-> clipped_qpos, printed |-> angle_printed,
              z_offset |-> 0, working |-> <<>>, features |-> NoFeatures]
        ELSE [err |-> "none", view |-> clipped_qpos,
              printed |-> angle_printed \o vel_printed,
              z_offset |-> z_offset,
              working |-> shifted,
              features |->
                [ position |-> ShiftZ([n \in 1..N |-> frames[n].position], z_offset),
                  quaternion |-> [n \in 1..N |-> frames[n].quaternion],
                  joints |-> [n \in 1..N |-> frames[n].joints],
                  center_of_mass |->
                      ShiftZ([n \in 1..N |-> frames[n].center_of_mass], z_offset),
                  end_effectors |-> [n \in 1..N |-> frames[n].end_effectors],
                  appendages |-> [n \in 1..N |-> frames[n].appendages],
                  body_positions |->
                      [n \in 1..N |-> ShiftZ(frames[n].body_positions, z_offset)],
                  body_quaternions |-> [n \in 1..N |-> frames[n].body_quaternions],
                  velocity |-> [t \in 1..Len(mocap_qvel) |-> SubSeq(mocap_qvel[t], 1, 3)],
                  angular_velocity |->
                      [t \in 1..Len(mocap_qvel) |-> SubSeq(mocap_qvel[t], 4, 6)],
                  joints_velocity |-> clipped_vels ] ]

----------------------------------------------------------------------------
(* Text: file names and clip names are sequences of characters. *)

DigitChars == <<"0", "1", "2", "3", "4", "5", "6", "7", "8", "9">>

IsDigit(c) == \E d \in 1..10 : DigitChars[d] = c

DigitVal(c) == (CHOOSE d \in 1..10 : DigitChars[d] = c) - 1

(* "%d" % n for n >= 0 *)
RECURSIVE FormatInt(_)
FormatInt(n) == IF n < 10 THEN <<DigitChars[n + 1]>>
                ELSE FormatInt(n \div 10) \o <<DigitChars[(n % 10) + 1]>>

(* int(s) of a text without sign or blanks: -1 stands for ValueError *)
RECURSIVE ParseDigits(_, _)
ParseDigits(s, acc) == IF s = <<>> THEN acc
                       ELSE ParseDigits(Tail(s), 10 * acc + DigitVal(Head(s)))

ParseInt(s) == IF s # <<>> /\ \A k \in 1..Len(s) : IsDigit(s[k])
               THEN ParseDigits(s, 0) ELSE -1

(* sub in f *)
Contains(f, sub) ==
    \E k \in 0..(Len(f) - Len(sub)) : SubSeq(f, k + 1, k + Len(sub)) = sub

(* f.split(".")[0] *)
Stem(f) ==
    IF \E k \in 1..Len(f) : f[k] = "."
    THEN SubSeq(f, 1, (CHOOSE k \in 1..Len(f) :
                          f[k] = "." /\ \A m \in 1..(k - 1) : f[m] # ".") - 1)
    ELSE f

Hdf5Ext == <<".", "h", "d", "f", "5">>
TotalWord == <<"t", "o", "t", "a", "l">>
ClipPrefix == <<"c", "l", "i", "p", "_">>
TotalFile == TotalWord \o Hdf5Ext
SeqSaveFile == <<"o", "u", "t", ".", "h", "5">>

----------------------------------------------------------------------------
(* Containers: a file is absent, or holds a set of clip groups. *)

NoFile == [exists |-> FALSE, groups |-> {}]

(* h5py.File(name, "w"): created, or truncated *)
NewFile == [exists |-> TRUE, groups |-> {}]

(* (time x component) stored as (component x time), lines 138-140 *)
Store2D(v) ==
    [c \in 1..Len(v[1]) |-> [t \in 1..Len(v) |-> v[t][c]]]

(* (time x entity x component) stored as (entity*component x time), 134-137 *)
Store3D(v) ==
    LET E == Len(v[1])
        C == IF E = 0 THEN 0 ELSE Len(v[1][1])
    IN  [r \in 1..(E * C) |->
            [t \in 1..Len(v) |-> v[t][((r - 1) \div C) + 1][((r - 1) % C) + 1]]]

(* the group save_features creates for mocap_features under clip_name *)
ClipGroup(mocap_features, clip_name) ==
    [ name |-> clip_name,
      num_steps |-> Len(mocap_features.center_of_mass),
      dt |-> SavedDt,
      walker_0 |->
        [ position |-> Store2D(mocap_features.position),
          quaternion |-> Store2D(mocap_features.quaternion),
          joints |-> Store2D(mocap_features.joints),
          center_of_mass |-> Store2D(mocap_features.center_of_mass),
          end_effectors |-> Store3D(mocap_features.end_effectors),
          appendages |-> Store3D(mocap_features.appendages),
          body_positions |-> Store3D(mocap_features.body_positions),
          body_quaternions |-> Store3D(mocap_features.body_quaternions),
          velocity |-> Store2D(mocap_features.velocity),
          angular_velocity |-> Store2D(mocap_features.angular_velocity),
          joints_velocity |-> Store2D(mocap_features.joints_velocity),
          scaling |-> <<>>,
          markers |-> <<>> ] ]

HasGroup(file, name) == \E g \in file.groups : g.name = name

(* save_features(file, mocap_features, clip_name), for a name that is free  *)
(* (create_group raises when the name is taken)                              *)
save_features(file, mocap_features, clip_name) ==
    [file EXCEPT !.groups = @ \cup {ClipGroup(mocap_features, clip_name)}]

----------------------------------------------------------------------------
(* Sequential chunking: NpmpPreprocessor.extract_features. *)

(* max_reference_index = np.max(self.ref_steps) + 1 *)
max_reference_index ==
    (CHOOSE m \in {cfg.ref_steps[k] : k \in 1..Len(cfg.ref_steps)} :
        \A k \in 1..Len(cfg.ref_steps) : cfg.ref_steps[k] <= m) + 1

(* mutant of EndStep: the clip ends with its core range *)
EndStepNoLookahead(start, n_steps) == Min2(start + cfg.clip_length, n_steps)

(* end_step = np.min([start + clip_length + max_reference_index, n_steps]) *)
EndStep(start, n_steps) ==
    Min2(start + cfg.clip_length + max_reference_index, n_steps)

(* mutant of NextStart: the loop steps by the length of the whole window *)
NextStartPastWindow(start) == start + cfg.clip_length + max_reference_index

(* line 99: range(0, n_steps, self.clip_length), the start after start *)
NextStart(start) == start + cfg.clip_length

(* qpos[start:end, :] passed to get_mocap_features with the read-back of    *)
(* its frames                                                                *)
Features(array, start, end) ==
    get_mocap_features(Slice(array, start, end), Slice(feet, start, end), walker,
                       cfg.max_qvel, cfg.dt_inv, cfg.adjust_z_offset, cfg.verbatim)

(* the array after a call on its rows start .. end-1: the slice is a view,  *)
(* so what the call wrote into it is written into the array                  *)
WriteBack(array, start, view) ==
    [i \in 1..Len(array) |->
        IF i > start /\ i <= start + Len(view) THEN view[i - start] ELSE array[i]]

(* line 98: with h5py.File(self.save_file, "w") as file *)
SeqOpen ==
    /\ mode = "seq" /\ pc = "init"
    /\ fs' = [fs EXCEPT ![SeqSaveFile] = NewFile]
    /\ start_step' = 0
    /\ pc' = "loop"
    /\ UNCHANGED <<stac, feet, walker, cfg, mode, qpos, out, jobs, mpc, files, mi,
                   after_jobs, result>>

(* lines 99-116: one iteration of the loop that ends normally *)
SeqClip ==
    /\ mode = "seq" /\ pc = "loop" /\ start_step < Len(qpos)
    /\ LET end_step == EndStep(start_step, Len(qpos))
           r == Features(qpos, start_step, end_step)
       IN  /\ r.err = "none"
           /\ ~HasGroup(fs[SeqSaveFile], ClipPrefix \o FormatInt(start_step))
           /\ qpos' = WriteBack(qpos, start_step, r.view)
           /\ out' = out \o r.printed
           /\ fs' = [fs EXCEPT ![SeqSaveFile] =
                        save_features(@, r.features, ClipPrefix \o FormatInt(start_step))]
    /\ start_step' = NextStart(start_step)
    /\ UNCHANGED <<stac, feet, walker, cfg, mode, pc, jobs, mpc, files, mi,
                   after_jobs, result>>

(* lines 99-112: get_mocap_features raises; the error leaves the with block, *)
(* which closes the file                                                     *)
SeqAbort ==
    /\ mode = "seq" /\ pc = "loop" /\ start_step < Len(qpos)
    /\ LET end_step == EndStep(start_step, Len(qpos))
           r == Features(qpos, start_step, end_step)
       IN  /\ \/ r.err # "none"
              \/ HasGroup(fs[SeqSaveFile], ClipPrefix \o FormatInt(start_step))
           /\ qpos' = WriteBack(qpos, start_step, r.view)
           /\ out' = out \o r.printed
    /\ pc' = "error"
    /\ UNCHANGED <<stac, feet, walker, cfg, mode, start_step, fs, jobs, mpc, files, mi,
                   after_jobs, result>>

(* the loop is exhausted and the with block closes the file *)
SeqClose ==
    /\ mode = "seq" /\ pc = "loop" /\ start_step >= Len(qpos)
    /\ pc' = "done"
    /\ UNCHANGED <<stac, feet, walker, cfg, mode, qpos, start_step, fs, out, jobs, mpc,
                   files, mi, after_jobs, result>>

----------------------------------------------------------------------------
(* Parallel mode: one ParallelNpmpPreprocessor per job, each with its own   *)
(* save file and its own copy of the reference trajectory.                   *)

JobIds == DOMAIN jobs

Clip0 == ClipPrefix \o <<"0">>

(* line 77: the constructor raises when the stac file cannot be read *)
JobConstructFail(j) ==
    /\ mode = "par" /\ jobs[j].pc = "new" /\ ~jobs[j].stac_ok
    /\ jobs' = [jobs EXCEPT ![j].pc = "failed"]
    /\ UNCHANGED <<stac, feet, walker, cfg, mode, qpos, pc, start_step, fs, out, mpc,
                   files, mi, after_jobs, result>>

(* lines 77-78 and 162: the trajectory is loaded and the save file opened   *)
JobOpen(j) ==
    /\ mode = "par" /\ jobs[j].pc = "new" /\ jobs[j].stac_ok
    /\ jobs' = [jobs EXCEPT ![j].pc = "open", ![j].qpos = stac]
    /\ fs' = [fs EXCEPT ![jobs[j].save_file] = NewFile]
    /\ UNCHANGED <<stac, feet, walker, cfg, mode, qpos, pc, start_step, out, mpc,
                   files, mi, after_jobs, result>>

(* lines 163-178: the single window is extracted and saved as clip_0 *)
JobExtract(j) ==
    /\ mode = "par" /\ jobs[j].pc = "open"
    /\ LET end_step == EndStep(jobs[j].start_step, Len(jobs[j].qpos))
           r == Features(jobs[j].qpos, jobs[j].start_step, end_step)
       IN  /\ r.err = "none"
           /\ jobs' = [jobs EXCEPT ![j].pc = "done",
                          ![j].qpos = WriteBack(@, jobs[j].start_step, r.view)]
           /\ out' = out \o r.printed
           /\ fs' = [fs EXCEPT ![jobs[j].save_file] = save_features(@, r.features, Clip0)]
    /\ UNCHANGED <<stac, feet, walker, cfg, mode, qpos, pc, start_step, mpc,
                   files, mi, after_jobs, result>>

(* lines 163-174: get_mocap_features raises and the with block closes the   *)
(* file that line 162 created                                                *)
JobAbort(j) ==
    /\ mode = "par" /\ jobs[j].pc = "open"
    /\ LET end_step == EndStep(jobs[j].start_step, Len(jobs[j].qpos))
           r == Features(jobs[j].qpos, jobs[j].start_step, end_step)
       IN  /\ r.err # "none"
           /\ jobs' = [jobs EXCEPT ![j].pc = "failed",
                          ![j].qpos = WriteBack(@, jobs[j].start_step, r.view)]
           /\ out' = out \o r.printed
    /\ UNCHANGED <<stac, feet, walker, cfg, mode, qpos, pc, start_step, fs, mpc,
                   files, mi, after_jobs, result>>

JobsEnded == \A j \in JobIds : jobs[j].pc \in {"done", "failed"}

----------------------------------------------------------------------------
(* merge_preprocessed_files(data_folder). *)

(* line 434: the names of the folder that hold ".hdf5" and not "total" *)
Listed ==
    {f \in DOMAIN fs : fs[f].exists /\ Contains(f, Hdf5Ext) /\ ~Contains(f, TotalWord)}

(* text order of two digit sequences *)
RECURSIVE LexLeq(_, _)
LexLeq(a, b) ==
    IF a = <<>> THEN TRUE
    ELSE IF b = <<>> THEN FALSE
    ELSE IF Head(a) # Head(b) THEN DigitVal(Head(a)) < DigitVal(Head(b))
    ELSE LexLeq(Tail(a), Tail(b))

(* mutant of SortedFiles: the names sorted as text *)
SortedFilesAsText(S) ==
    {s \in [1..Cardinality(S) -> S] :
        /\ \A a, b \in 1..Cardinality(S) : a # b => s[a] # s[b]
        /\ \A a, b \in 1..Cardinality(S) : a < b => LexLeq(Stem(s[a]), Stem(s[b]))}

(* lines 435-436: the listed files in an order np.argsort of the integer    *)
(* stems can give (the order of os.listdir is arbitrary, so files of equal  *)
(* value come in either order)                                               *)
SortedFiles(S) ==
    {s \in [1..Cardinality(S) -> S] :
        /\ \A a, b \in 1..Cardinality(S) : a # b => s[a] # s[b]
        /\ \A a, b \in 1..Cardinality(S) :
              a < b => ParseInt(Stem(s[a])) <= ParseInt(Stem(s[b]))}

(* line 435: int() raises on a stem that is not a number *)
MergeBadName ==
    /\ mode = "par" /\ mpc = "init"
    /\ \E f \in Listed : ParseInt(Stem(f)) < 0
    /\ mpc' = "error"
    /\ after_jobs' = JobsEnded
    /\ UNCHANGED <<stac, feet, walker, cfg, mode, qpos, pc, start_step, fs, out, jobs,
                   files, mi, result>>

(* lines 434-438: list, sort, open total.hdf5 for writing *)
MergeStart ==
    /\ mode = "par" /\ mpc = "init"
    /\ \A f \in Listed : ParseInt(Stem(f)) >= 0
    /\ files' \in SortedFiles(Listed)
    /\ fs' = [fs EXCEPT ![TotalFile] = NewFile]
    /\ mi' = 0
    /\ mpc' = "copy"
    /\ after_jobs' = JobsEnded
    /\ UNCHANGED <<stac, feet, walker, cfg, mode, qpos, pc, start_step, out, jobs,
                   result>>

(* lines 439-445: the next file's clip_0 is copied as clip_<stem> *)
MergeCopy ==
    /\ mode = "par" /\ mpc = "copy" /\ mi < Len(files)
    /\ LET file == files[mi + 1]
           clip_name == ClipPrefix \o Stem(file)
       IN  /\ HasGroup(fs[file], Clip0)
           /\ ~HasGroup(fs[TotalFile], clip_name)
           /\ fs' = [fs EXCEPT ![TotalFile].groups =
                        @ \cup {[g EXCEPT !.name = clip_name] :
                                    g \in {h \in fs[file].groups : h.name = Clip0}}]
    /\ mi' = mi + 1
    /\ UNCHANGED <<stac, feet, walker, cfg, mode, qpos, pc, start_step, out, jobs, mpc,
                   files, after_jobs, result>>

(* line 445: chunk.copy raises when the file holds no clip_0 (KeyError) or  *)
(* the name is taken; both with blocks close their files                     *)
MergeCopyFail ==
    /\ mode = "par" /\ mpc = "copy" /\ mi < Len(files)
    /\ LET file == files[mi + 1]
           clip_name == ClipPrefix \o Stem(file)
       IN  ~HasGroup(fs[file], Clip0) \/ HasGroup(fs[TotalFile], clip_name)
    /\ mpc' = "error"
    /\ UNCHANGED <<stac, feet, walker, cfg, mode, qpos, pc, start_step, fs, out, jobs,
                   files, mi, after_jobs, result>>

(* the loop is exhausted and total.hdf5 is closed *)
MergeClose ==
    /\ mode = "par" /\ mpc = "copy" /\ mi = Len(files)
    /\ mpc' = "done"
    /\ UNCHANGED <<stac, feet, walker, cfg, mode, qpos, pc, start_step, fs, out, jobs,
                   files, mi, after_jobs, result>>

----------------------------------------------------------------------------
(* The kinematic model and the inputs of the runs. *)

(* walker.mocap_joints and their ranges (lines 243-246), in angle units *)
JointNames == <<"hip", "knee">>
JointRanges == << <<-2, 2>>, <<0, 4>> >>

(* walker.mocap_tracking_bodies: the rodent's, and a model without feet *)
RodentBodies == <<"torso", "foot_L", "foot_R">>
FootlessBodies == <<"torso">>

Walker(bodies, app) ==
    [ joint_names |-> JointNames, joint_ranges |-> JointRanges,
      body_names |-> bodies, has_appendages |-> app ]

IdentityQuat == <<1, 0, 0, 0>>

(* frame i of a reference trajectory of the chunking runs: its x is its     *)
(* 0-based index, so that a clip shows which frames it holds; extra is the  *)
(* number of columns beyond the model's joints                               *)
ChunkPose(i, hip, extra) ==
    <<i - 1, 0, 0>> \o IdentityQuat \o <<hip, 0>> \o [k \in 1..extra |-> 0]

(* foot heights read back for frame i in the chunking runs *)
ChunkFeet(i) == <<120 * (i % 2), 240>>

(* ref_steps = (1, ..., m) *)
RefSteps(m) == [k \in 1..m |-> k]

(* max_qvel = 20 rad/s and dt = 0.02 s, the defaults of lines 48-49 *)
DefaultMaxQvel == 400
DefaultDtInv == 50

(* the file names the parallel jobs write *)
AllStems == {<<"1">>, <<"2">>, <<"1", "0">>, <<"0", "1">>}
JobFile(stem) == stem \o Hdf5Ext

(* a file in the data folder that no job wrote *)
StrayFile == <<"n", "o", "t", "e", "s">> \o Hdf5Ext

FileNames == {SeqSaveFile, TotalFile, StrayFile} \cup {JobFile(st) : st \in AllStems}

(* the group a merge of an earlier run left in total.hdf5 *)
OldGroup == [ name |-> ClipPrefix \o <<"9">>, num_steps |-> 0, dt |-> SavedDt,
              walker_0 |-> [NoFeatures EXCEPT !.position = <<>>] ]

NoJobs == [j \in {} |-> 0]

InitSeq ==
    /\ mode = "seq"
    /\ \E bodies \in {RodentBodies, FootlessBodies} : walker = Walker(bodies, TRUE)
    /\ \E n \in 1..MaxSteps, extra \in 0..1 :
         /\ \E hips \in [1..n -> {0, 5}] :
                stac = [i \in 1..n |-> ChunkPose(i, hips[i], extra)]
         /\ feet = [i \in 1..n |-> ChunkFeet(i)]
    /\ cfg \in [ clip_length : 1..MaxClipLength,
                 ref_steps : {RefSteps(m) : m \in 1..MaxRefStep},
                 max_qvel : {DefaultMaxQvel},
                 dt_inv : {DefaultDtInv},
                 adjust_z_offset : {0, 120},
                 verbatim : {TRUE} ]
    /\ qpos = stac
    /\ jobs = NoJobs
    /\ fs = [f \in FileNames |-> NoFile]

InitPar ==
    /\ mode = "par"
    /\ walker = Walker(RodentBodies, TRUE)
    /\ \E n \in 1..MaxSteps :
         /\ stac = [i \in 1..n |-> ChunkPose(i, 0, 0)]
         /\ feet = [i \in 1..n |-> ChunkFeet(i)]
    /\ cfg \in [ clip_length : 1..MaxClipLength,
                 ref_steps : {RefSteps(MaxRefStep)},
                 max_qvel : {DefaultMaxQvel},
                 dt_inv : {DefaultDtInv},
                 adjust_z_offset : {0},
                 verbatim : {FALSE} ]
    /\ qpos = <<>>
    /\ \E S \in SUBSET AllStems :
         /\ Cardinality(S) \in 1..MaxJobs
         /\ \E ok \in [1..Cardinality(S) -> BOOLEAN] :
              LET st == CHOOSE f \in [1..Cardinality(S) -> S] :
                            \A a, b \in 1..Cardinality(S) : a # b => f[a] # f[b]
              IN  jobs = [j \in 1..Cardinality(S) |->
                            [ pc |-> "new",
                              start_step |-> (j - 1) * cfg.clip_length,
                              save_file |-> JobFile(st[j]),
                              stac_ok |-> ok[j],
                              qpos |-> <<>> ]]
    /\ \E extra \in {{}, {TotalFile}, {StrayFile}} :
         fs = [f \in FileNames |->
                 IF f \in extra
                 THEN [exists |-> TRUE,
                       groups |-> IF f = TotalFile THEN {OldGroup} ELSE {}]
                 ELSE NoFile]

Init ==
    /\ InitSeq \/ InitPar
    /\ pc = "init"
    /\ start_step = 0
    /\ out = <<>>
    /\ mpc = "init"
    /\ files = <<>>
    /\ mi = 0
    /\ after_jobs = FALSE
    /\ result = <<>>

Next ==
    \/ SeqOpen
    \/ SeqClip
    \/ SeqAbort
    \/ SeqClose
    \/ \E j \in JobIds : JobConstructFail(j)
    \/ \E j \in JobIds : JobOpen(j)
    \/ \E j \in JobIds : JobExtract(j)
    \/ \E j \in JobIds : JobAbort(j)
    \/ MergeBadName
    \/ MergeStart
    \/ MergeCopy
    \/ MergeCopyFail
    \/ MergeClose

Spec == Init /\ [][Next]_vars

----------------------------------------------------------------------------
(* Runs of get_mocap_features alone on a segment (stac) with the read-back  *)
(* of its frames (feet).                                                     *)

(* a segment whose frames move and whose feet vary: ground alignment *)
InitGround ==
    /\ \E n \in 1..MaxFeatSteps :
         /\ stac = [i \in 1..n |-> <<60 * i, 7, 120 * i>> \o IdentityQuat \o <<0, 1>>]
         /\ feet \in [1..n -> {<<0, 0>>, <<0, 120>>, <<240, 120>>}]
    /\ \E bodies \in {RodentBodies, FootlessBodies} : walker = Walker(bodies, TRUE)
    /\ cfg \in [ clip_length : {1}, ref_steps : {RefSteps(1)},
                 max_qvel : {DefaultMaxQvel}, dt_inv : {DefaultDtInv},
                 adjust_z_offset : {0, 120}, verbatim : {FALSE} ]

(* a short segment whose joint angles vary: clipping and its diagnostics *)
InitAngles ==
    /\ \E n \in 1..MaxClipSteps :
         /\ \E hips \in [1..n -> {-5, -2, 0, 2, 3, 4, 5}], knees \in [1..n -> {0, 6}] :
              stac = [i \in 1..n |->
                        <<0, 0, 120>> \o IdentityQuat \o <<hips[i], knees[i]>>]
         /\ feet = [i \in 1..n |-> <<0, 0>>]
    /\ \E app \in BOOLEAN : walker = Walker(RodentBodies, app)
    /\ cfg \in [ clip_length : {1}, ref_steps : {RefSteps(1)},
                 max_qvel : {DefaultMaxQvel, 100}, dt_inv : {DefaultDtInv},
                 adjust_z_offset : {0}, verbatim : BOOLEAN ]

InitFeat ==
    /\ mode = "feat"
    /\ InitGround \/ InitAngles
    /\ qpos = stac
    /\ jobs = NoJobs
    /\ fs = [f \in FileNames |-> NoFile]
    /\ pc = "init"
    /\ start_step = 0
    /\ out = <<>>
    /\ mpc = "init"
    /\ files = <<>>
    /\ mi = 0
    /\ after_jobs = FALSE
    /\ result = <<>>

(* one call get_mocap_features(qpos, ...) on the whole segment *)
FeatCall ==
    /\ mode = "feat" /\ pc = "init"
    /\ LET r == Features(qpos, 0, Len(qpos))
       IN  /\ result' = r
           /\ qpos' = WriteBack(qpos, 0, r.view)
           /\ out' = out \o r.printed
    /\ pc' = "done"
    /\ UNCHANGED <<stac, feet, walker, cfg, mode, start_step, fs, jobs, mpc, files, mi,
                   after_jobs>>

SpecFeat == InitFeat /\ [][FeatCall]_vars

----------------------------------------------------------------------------
(* Runs of compute_velocity_from_kinematics alone on a padded trajectory.   *)

VelQuats == {IdentityQuat, <<0, 1, 0, 0>>, <<0, 0, 0, 1>>}

(* the pose k steps of <<1, 2, 3>> away from the origin *)
VelPose(k, q, hip) == <<k, 2 * k, 3 * k>> \o q \o <<hip, 0 - hip>>

InitVel ==
    /\ mode = "vel"
    /\ \E T \in 2..(MaxVelSteps + 1) :
         \E ks \in [1..T -> 0..2], qs \in [1..T -> VelQuats], hs \in [1..T -> {0, 3}] :
            stac = [i \in 1..T |-> VelPose(ks[i], qs[i], hs[i])]
    /\ feet = <<>>
    /\ walker = Walker(RodentBodies, TRUE)
    /\ cfg \in [ clip_length : {1}, ref_steps : {RefSteps(1)},
                 max_qvel : {DefaultMaxQvel}, dt_inv : {DefaultDtInv},
                 adjust_z_offset : {0}, verbatim : {FALSE} ]
    /\ qpos = stac
    /\ jobs = NoJobs
    /\ fs = [f \in FileNames |-> NoFile]
    /\ pc = "init"
    /\ start_step = 0
    /\ out = <<>>
    /\ mpc = "init"
    /\ files = <<>>
    /\ mi = 0
    /\ after_jobs = FALSE
    /\ result = <<>>

(* one call compute_velocity_from_kinematics(qpos, dt) *)
VelCall ==
    /\ mode = "vel" /\ pc = "init"
    /\ result' = compute_velocity_from_kinematics(qpos, cfg.dt_inv)
    /\ pc' = "done"
    /\ UNCHANGED <<stac, feet, walker, cfg, mode, qpos, start_step, fs, out, jobs, mpc,
                   files, mi, after_jobs>>

SpecVel == InitVel /\ [][VelCall]_vars

----------------------------------------------------------------------------
(* Properties. *)

(* the reference steps, and the lookahead they ask for *)
RefStepSet == {cfg.ref_steps[k] : k \in 1..Len(cfg.ref_steps)}
Lookahead == (CHOOSE m \in RefStepSet : \A r \in RefStepSet : r <= m) + 1

(* the start offset a clip of the sequential run is named after *)
ClipStart(g) == ParseInt(SubSeq(g.name, Len(ClipPrefix) + 1, Len(g.name)))

(* the 0-based indices of the frames a clip of a chunking run holds, read   *)
(* from the x positions it stores (frame i of the trajectory has x = i)      *)
ClipFrames(g) == g.walker_0.position[1]

(* the start offsets of the sequential clips of a trajectory of n frames *)
ChunkStarts(n) == {s \in 0..(n - 1) : s % cfg.clip_length = 0}

(* C1: sequential chunking coverage.  While extract_features runs, the save *)
(* file holds exactly one clip for every start offset s in {0, clip_length, *)
(* 2*clip_length, ...} below the loop variable, named clip_<s>, holding the *)
(* frames s .. min(s + clip_length + lookahead, n_steps) - 1; when it is    *)
(* done that is every such s < n_steps, no clip ends beyond n_steps, and    *)
(* every frame lies in the core range [s, s + clip_length) of exactly one   *)
(* clip.                                                                     *)
C1_ChunkingCoverage ==
    (mode = "seq" /\ pc \in {"loop", "done"}) =>
        LET n == Len(stac)
            groups == fs[SeqSaveFile].groups
            written == {s \in ChunkStarts(n) : s < start_step}
        IN  /\ Cardinality(groups) = Cardinality(written)
            /\ \A s \in written :
                 \E g \in groups :
                    /\ g.name = ClipPrefix \o FormatInt(s)
                    /\ g.num_steps = Min2(s + cfg.clip_length + Lookahead, n) - s
                    /\ ClipFrames(g) = [t \in 1..g.num_steps |-> s + t - 1]
            /\ \A g \in groups : ClipStart(g) + g.num_steps <= n
            /\ pc = "done" =>
                 /\ written = ChunkStarts(n)
                 /\ \A f \in 0..(n - 1) :
                      Cardinality({g \in groups :
                          ClipStart(g) <= f /\ f < ClipStart(g) + cfg.clip_length}) = 1

(* C1 witness: a finished run with several clips, one of full length and    *)
(* one clamped to the end of the trajectory                                  *)
C1_Witness ==
    /\ mode = "seq" /\ pc = "done"
    /\ Cardinality(fs[SeqSaveFile].groups) >= 2
    /\ \E g \in fs[SeqSaveFile].groups : g.num_steps = cfg.clip_length + Lookahead
    /\ \E g \in fs[SeqSaveFile].groups :
          /\ g.num_steps < cfg.clip_length + Lookahead
          /\ ClipStart(g) + g.num_steps = Len(stac)

(* the clips of the chunking runs: start offset and frames held *)
ClipWindows ==
    {[start |-> ClipStart(g), frames |-> ClipFrames(g)] : g \in fs[SeqSaveFile].groups}
    \cup UNION {{[start |-> jobs[j].start_step, frames |-> ClipFrames(g)] :
                    g \in fs[jobs[j].save_file].groups} : j \in JobIds}

(* the core frames of a clip that starts at s *)
CoreFrames(s) == {t \in 0..(Len(stac) - 1) : s <= t /\ t < s + cfg.clip_length}

Holds(w, f) == \E k \in 1..Len(w.frames) : w.frames[k] = f

(* C2 as stated: every clip holds frame t + r for every core frame t and    *)
(* every reference step r                                                    *)
C2_LookaheadAlways ==
    \A w \in ClipWindows :
        \A t \in CoreFrames(w.start), r \in RefStepSet : Holds(w, t + r)

(* C2 amended: every clip holds its core frames and, for every core frame t *)
(* and reference step r, frame t + r whenever the trajectory has such a     *)
(* frame (t + r < n_steps); only a clip within lookahead of the end of the  *)
(* trajectory holds fewer than lookahead frames beyond its core range.      *)
C2_LookaheadWithinTrajectory ==
    \A w \in ClipWindows :
        /\ \A t \in CoreFrames(w.start) : Holds(w, t)
        /\ \A t \in CoreFrames(w.start), r \in RefStepSet :
              t + r < Len(stac) => Holds(w, t + r)
        /\ w.start + cfg.clip_length + Lookahead <= Len(stac) =>
              Len(w.frames) = cfg.clip_length + Lookahead

(* C2 witness: a parallel job wrote a truncated clip that still holds       *)
(* frames beyond its core range                                              *)
C2_Witness ==
    /\ mode = "par"
    /\ \E w \in ClipWindows :
          /\ w.start > 0
          /\ Len(w.frames) > cfg.clip_length
          /\ Len(w.frames) < cfg.clip_length + Lookahead

(* the groups of total.hdf5 that the files taken so far account for: each   *)
(* file's clip_0 under the name clip_<stem>                                  *)
MergedFrom(taken) ==
    UNION {{[g EXCEPT !.name = ClipPrefix \o Stem(f)] :
                g \in {h \in fs[f].groups : h.name = Clip0}} : f \in taken}

(* C3: merge ordering and naming.  For a merge started once the jobs have   *)
(* ended: the files are taken in ascending order of the integer value of    *)
(* their stems, every listed file (none of them total.hdf5) once; after mi  *)
(* files total.hdf5 holds exactly the clip_0 groups of those files, each    *)
(* under the name clip_<stem>, one group per file under distinct names; and *)
(* the merge raises only if a listed name is not numeric or a listed file   *)
(* holds no clip_0.                                                          *)
C3_MergeOrderAndNaming ==
    (mode = "par" /\ after_jobs) =>
        /\ mpc \in {"copy", "done"} =>
             LET taken == {files[k] : k \in 1..mi}
                 names == {g.name : g \in fs[TotalFile].groups}
             IN  /\ \A a, b \in 1..Len(files) :
                       a < b => ParseInt(Stem(files[a])) <= ParseInt(Stem(files[b]))
                 /\ {files[k] : k \in 1..Len(files)} = Listed
                 /\ Cardinality(Listed) = Len(files)
                 /\ TotalFile \notin Listed
                 /\ fs[TotalFile].groups = MergedFrom(taken)
                 /\ names = {ClipPrefix \o Stem(f) : f \in taken}
                 /\ Cardinality(fs[TotalFile].groups) = mi
                 /\ Cardinality(names) = mi
                 /\ mpc = "done" => mi = Len(files)
        /\ mpc = "error" =>
             \E f \in Listed : ParseInt(Stem(f)) < 0 \/ ~HasGroup(fs[f], Clip0)

(* C3 witness: a finished merge of 2.hdf5 and 10.hdf5, in this order, over  *)
(* a total.hdf5 of an earlier run                                            *)
C3_Witness ==
    /\ mode = "par" /\ after_jobs /\ mpc = "done"
    /\ files = <<JobFile(<<"2">>), JobFile(<<"1", "0">>)>>
    /\ {g.name : g \in fs[TotalFile].groups}
          = {ClipPrefix \o <<"2">>, ClipPrefix \o <<"1", "0">>}

(* the jobs that succeeded *)
Succeeded == {j \in JobIds : jobs[j].pc = "done"}

(* C4 as stated: a merge started after all jobs have ended, in a folder     *)
(* with no other file, does not raise, and when it is done total.hdf5 holds *)
(* exactly the clips of the jobs that succeeded.                             *)
C4_FailuresInvisibleToMerge ==
    (mode = "par" /\ after_jobs /\ ~fs[StrayFile].exists) =>
        /\ mpc # "error"
        /\ mpc = "done" =>
             fs[TotalFile].groups = MergedFrom({jobs[j].save_file : j \in Succeeded})

(* C5 as stated: when the sequential extract_features aborts, the save file *)
(* is not left behind.                                                       *)
C5_AbortLeavesNoOutput ==
    (mode = "seq" /\ pc = "error") => ~fs[SeqSaveFile].exists

(* C6 as stated: self.qpos equals the reference trajectory as loaded. *)
C6_InputImmutable ==
    mode = "seq" => qpos = stac

(* the foot heights recorded for the segment: two per frame *)
RecordedHeights == FlattenSeq([i \in 1..Len(feet) |-> <<feet[i][1], feet[i][2]>>])

(* the sum of the k lowest entries of h, by counting: with v the k-th       *)
(* lowest value, all entries below v and as many copies of v as are missing *)
SumOfLowest(h, k) ==
    LET below(v) == {i \in 1..Len(h) : h[i] < v}
        upto(v) == {i \in 1..Len(h) : h[i] <= v}
        v == CHOOSE x \in {h[i] : i \in 1..Len(h)} :
                Cardinality(below(x)) < k /\ k <= Cardinality(upto(x))
    IN  SumSeq([i \in 1..Len(h) |-> IF h[i] < v THEN h[i] ELSE 0])
          + (k - Cardinality(below(v))) * v

LowerZ(p, z) == <<p[1], p[2], p[3] - z>>

AngleRecords(i, j) ==
    {k \in 1..Len(result.printed) :
        /\ result.printed[k].kind = "angle"
        /\ result.printed[k].step = i - 1
        /\ result.printed[k].joint = walker.joint_names[j]}

(* C8: angle clipping and its diagnostics.  Every joint angle is replaced   *)
(* by its value clipped to the joint's range, in the array and in the       *)
(* joints feature, so a value on a boundary is unchanged; a value more than *)
(* 0.1 outside its range gives exactly one angle record (frame, joint,      *)
(* original, clipped) under verbatim and none otherwise; an unclipped value *)
(* gives none; no value clipped means no angle record at all.               *)
C8_AngleClipping ==
    (mode = "feat" /\ pc = "done" /\ result.err = "none") =>
        /\ \A i \in 1..Len(stac), j \in 1..Len(walker.joint_names) :
             LET v == stac[i][FreejointDim + j]
                 lo == walker.joint_ranges[j][1]
                 hi == walker.joint_ranges[j][2]
                 c == result.view[i][FreejointDim + j]
             IN  /\ (lo <= v /\ v <= hi) => c = v
                 /\ v < lo => c = lo
                 /\ v > hi => c = hi
                 /\ result.features.joints[i][j] = c
                 /\ qpos[i][FreejointDim + j] = c
                 /\ c = v => AngleRecords(i, j) = {}
                 /\ ~cfg.verbatim => AngleRecords(i, j) = {}
                 /\ (cfg.verbatim /\ Abs(v - c) > ClipTol) =>
                       /\ Cardinality(AngleRecords(i, j)) = 1
                       /\ \A k \in AngleRecords(i, j) :
                             result.printed[k].from = v /\ result.printed[k].to = c
        /\ \A k \in 1..Len(result.printed) :
             result.printed[k].kind = "angle" =>
                \E i \in 1..Len(stac), j \in 1..Len(walker.joint_names) :
                    k \in AngleRecords(i, j)

(* C8 witness: under verbatim, a hip angle on its boundary and one 0.15     *)
(* beyond it, with exactly one angle record printed                          *)
C8_Witness ==
    /\ mode = "feat" /\ pc = "done" /\ result.err = "none"
    /\ cfg.verbatim
    /\ Len(stac) = 2
    /\ stac[1][FreejointDim + 1] = JointRanges[1][2]
    /\ stac[2][FreejointDim + 1] = JointRanges[1][2] + 3
    /\ Cardinality({k \in 1..Len(result.printed) : result.printed[k].kind = "angle"}) = 1

FeatureNames ==
    {"position", "quaternion", "joints", "center_of_mass", "end_effectors",
     "appendages", "body_positions", "body_quaternions", "velocity",
     "angular_velocity", "joints_velocity"}

Zeros(n) == [k \in 1..n |-> 0]

(* C10: uniform time length.  For a segment of N >= 1 poses every feature   *)
(* array has exactly N entries, entry t belonging to pose t; velocity entry *)
(* t < N is the difference of poses t and t + 1, and entry N, the           *)
(* difference of the final pose and its appended copy, is zero.              *)
C10_UniformTimeLength ==
    (mode = "feat" /\ pc = "done" /\ result.err = "none") =>
        LET N == Len(stac)
            f == result.features
        IN  /\ N >= 1
            /\ DOMAIN f = FeatureNames
            /\ \A name \in FeatureNames : Len(f[name]) = N
            /\ \A t \in 1..N :
                 /\ f.position[t][1] = stac[t][1]
                 /\ f.position[t][2] = stac[t][2]
                 /\ f.quaternion[t] = SubSeq(stac[t], 4, FreejointDim)
                 /\ f.joints[t] = SubSeq(result.view[t], FreejointDim + 1, Len(stac[t]))
            /\ \A t \in 1..(N - 1) :
                 f.velocity[t] = [c \in 1..3 |-> (stac[t + 1][c] - stac[t][c]) * cfg.dt_inv]
            /\ f.velocity[N] = Zeros(3)
            /\ f.angular_velocity[N] = Zeros(3)
            /\ f.joints_velocity[N] = Zeros(Len(walker.joint_names))

(* C10 witness: a segment of several moving poses *)
C10_Witness ==
    /\ mode = "feat" /\ pc = "done" /\ result.err = "none"
    /\ Len(stac) >= 3
    /\ Len(result.features.velocity) = Len(stac)
    /\ result.features.velocity[1] # Zeros(3)

(* C9: velocity estimator.  A trajectory of N + 1 poses of width 7 + J      *)
(* gives N rows of width 6 + J; in row t the first three entries are        *)
(* (pos[t+1] - pos[t]) / dt and the last J are (angle[t+1] - angle[t]) / dt; *)
(* a trajectory of constant linear velocity v without rotation or joint     *)
(* motion gives <<v, 0, 0>> in every row.                                    *)
C9_VelocityEstimator ==
    (mode = "vel" /\ pc = "done") =>
        LET N == Len(stac) - 1
            J == Len(stac[1]) - FreejointDim
            step(t) == [c \in 1..3 |-> stac[t + 1][c] - stac[t][c]]
        IN  /\ N >= 1
            /\ Len(result) = N
            /\ \A t \in 1..N :
                 /\ Len(result[t]) = 6 + J
                 /\ \A c \in 1..3 : result[t][c] = step(t)[c] * cfg.dt_inv
                 /\ \A j \in 1..J :
                      result[t][6 + j] =
                          (stac[t + 1][FreejointDim + j] - stac[t][FreejointDim + j])
                              * cfg.dt_inv
            /\ ( /\ \A t \in 1..N : step(t) = step(1)
                 /\ \A t \in 1..N : SubSeq(stac[t + 1], 4, Len(stac[1]))
                                      = SubSeq(stac[1], 4, Len(stac[1])) )
               => \A t \in 1..N :
                     result[t] = [c \in 1..3 |-> step(1)[c] * cfg.dt_inv] \o Zeros(3 + J)

(* C9 witness: three poses moving at a constant non-zero velocity with a    *)
(* fixed orientation other than the identity and fixed joint angles          *)
C9_Witness ==
    /\ mode = "vel" /\ pc = "done"
    /\ Len(stac) = 3
    /\ SubSeq(stac[2], 1, 3) # SubSeq(stac[1], 1, 3)
    /\ \A c \in 1..3 : stac[3][c] - stac[2][c] = stac[2][c] - stac[1][c]
    /\ SubSeq(stac[1], 4, FreejointDim) = <<0, 0, 0, 1>>
    /\ \A t \in 2..3 : SubSeq(stac[t], 4, Len(stac[1])) = SubSeq(stac[1], 4, Len(stac[1]))
    /\ stac[1][FreejointDim + 1] # 0
    /\ result[2] = result[1]

====
